---- MODULE Spec2Model ----
(***************************************************************************)
(* Model of scripts/calculate-cost.py: the command line entry point main,  *)
(* the resource sizer calculate_resources and the cost estimator           *)
(* calculate_costs.                                                        *)
(*                                                                         *)
(* Strings are sequences of one-character strings, so that int(argv[1])    *)
(* is a real parse.  Money is an integer number of units of 1/400000       *)
(* dollar (every price of the script is a whole number of such units, and  *)
(* so is every product the script forms on a configuration the sizer can   *)
(* return); a rounded amount is an integer number of cents.                *)
(***************************************************************************)
EXTENDS Integers, Sequences, FiniteSets, TLC

\* ------------------------------------------------------------------ bounds
\* The positional argument ranges over the decimal literals of 0..MaxArg.
MaxArg == 50002

\* ------------------------------------------------------- program constants
UnitsPerCent == 4000

ECS_CPU_PRICE_PER_VCPU_HOUR == 16192
ECS_MEMORY_PRICE_PER_GB_HOUR == 1778
HOURS_PER_MONTH == 730

REDIS_HOURLY_PRICING ==
    [t \in {"cache.t3.micro", "cache.t3.small", "cache.t3.medium",
            "cache.t3.large", "cache.r6g.large", "cache.r6g.xlarge"} |->
        CASE t = "cache.t3.micro"   -> 6800
          [] t = "cache.t3.small"   -> 13600
          [] t = "cache.t3.medium"  -> 27200
          [] t = "cache.t3.large"   -> 54400
          [] t = "cache.r6g.large"  -> 50400
          [] t = "cache.r6g.xlarge" -> 100800]

REDIS_DEFAULT_HOURLY == 6800

EFS_STORAGE_PRICE_PER_GB_MONTH == 120000
EFS_BASELINE_STORAGE_GB == 100

NAT_GATEWAY_PRICE_PER_MONTH == 12960000
ALB_BASE_PRICE_PER_MONTH == 6480000
GLOBAL_ACCELERATOR_PRICE_PER_MONTH == 2880000

CPU_OPTIONS == <<256, 512, 1024, 2048, 4096, 8192, 16384>>

CPU_MEMORY_MIN ==
    [cpu \in {256, 512, 1024, 2048, 4096, 8192, 16384} |->
        CASE cpu = 256   -> 512
          [] cpu = 512   -> 1024
          [] cpu = 1024  -> 2048
          [] cpu = 2048  -> 4096
          [] cpu = 4096  -> 8192
          [] cpu = 8192  -> 16384
          [] cpu = 16384 -> 32768]

CPU_MEMORY_MAX ==
    [cpu \in {256, 512, 1024, 2048, 4096, 8192, 16384} |->
        CASE cpu = 256   -> 2048
          [] cpu = 512   -> 4096
          [] cpu = 1024  -> 8192
          [] cpu = 2048  -> 16384
          [] cpu = 4096  -> 30720
          [] cpu = 8192  -> 30720
          [] cpu = 16384 -> 61440]

MIN_PLAYER_CAPACITY == 100
MAX_PLAYER_CAPACITY == 50000

\* ------------------------------------------------------- Python built-ins
Max2(a, b) == IF a >= b THEN a ELSE b
Min2(a, b) == IF a <= b THEN a ELSE b

\* min(list): raises ValueError on an empty list, which the caller tests.
MinOfSeq(s) == CHOOSE x \in {s[i] : i \in 1..Len(s)} :
                   \A j \in 1..Len(s) : x <= s[j]

\* math.ceil(a / b) for a >= 0, b > 0
CeilDiv(a, b) == (a + b - 1) \div b

\* round(x, 2): x in money units, the result in cents, ties to even.
Round2(x) ==
    LET q == x \div UnitsPerCent
        r == x % UnitsPerCent
    IN  IF 2 * r < UnitsPerCent THEN q
        ELSE IF 2 * r > UnitsPerCent THEN q + 1
        ELSE IF q % 2 = 0 THEN q ELSE q + 1

Digits == <<"0", "1", "2", "3", "4", "5", "6", "7", "8", "9">>

IsDigit(ch) == \E i \in 1..10 : Digits[i] = ch
DigitVal(ch) == (CHOOSE i \in 1..10 : Digits[i] = ch) - 1

RECURSIVE StripLeft(_)
StripLeft(s) == IF s # <<>> /\ Head(s) = " " THEN StripLeft(Tail(s)) ELSE s

RECURSIVE StripRight(_)
StripRight(s) == IF s # <<>> /\ s[Len(s)] = " "
                 THEN StripRight(SubSeq(s, 1, Len(s) - 1)) ELSE s

RECURSIVE DigitsValue(_)
DigitsValue(s) == IF s = <<>> THEN 0
                  ELSE 10 * DigitsValue(SubSeq(s, 1, Len(s) - 1))
                       + DigitVal(s[Len(s)])

Return(v) == [raised |-> FALSE, value |-> v]
Raise(e) == [raised |-> TRUE, error |-> e]

\* int(s) on a str: surrounding blanks are stripped, one sign is allowed,
\* then at least one digit and nothing but digits; otherwise ValueError.
ParseInt(s) ==
    LET t == StripRight(StripLeft(s))
        signed == t # <<>> /\ Head(t) \in {"-", "+"}
        body == IF signed THEN Tail(t) ELSE t
    IN  IF body # <<>> /\ \A i \in 1..Len(body) : IsDigit(body[i])
        THEN Return(IF signed /\ Head(t) = "-"
                    THEN 0 - DigitsValue(body) ELSE DigitsValue(body))
        ELSE Raise("ValueError")

\* -------------------------------------------------- calculate_resources
\* memory_mb = max(valid_memory_min, min(memory_mb, valid_memory_max))
ClampMemory(memory_mb, valid_memory_min, valid_memory_max) ==
    Max2(valid_memory_min, Min2(memory_mb, valid_memory_max))

RequiredVCpu(player_capacity) == Max2(1, CeilDiv(player_capacity, 100))

\* A sizer that asks for one GB per 25 players instead of one per 50.
RequiredMemoryGbPer25(player_capacity) ==
    Max2(2, CeilDiv(player_capacity, 25))

RequiredMemoryGb(player_capacity) == Max2(2, CeilDiv(player_capacity, 50))

\* [cpu for cpu in CPU_OPTIONS if cpu >= cpu_units]
CpuCandidates(cpu_units) ==
    LET AtLeast(cpu) == cpu >= cpu_units IN SelectSeq(CPU_OPTIONS, AtLeast)

RedisNodeType(player_capacity) ==
    IF player_capacity <= 500 THEN "cache.t3.micro"
    ELSE IF player_capacity <= 2000 THEN "cache.t3.small"
    ELSE IF player_capacity <= 5000 THEN "cache.t3.medium"
    ELSE IF player_capacity <= 10000 THEN "cache.t3.large"
    ELSE IF player_capacity <= 20000 THEN "cache.r6g.large"
    ELSE "cache.r6g.xlarge"

RedisReplicaCount(player_capacity) ==
    Max2(0, CeilDiv(player_capacity, 5000) - 1)

EfsPerformanceMode(player_capacity) ==
    IF player_capacity >= 5000 THEN "maxIO" ELSE "generalPurpose"

NatGatewayCount(player_capacity) == IF player_capacity >= 10000 THEN 2 ELSE 1

EnableGlobalAccelerator(player_capacity) == player_capacity >= 1000

DesiredCount(player_capacity) ==
    IF player_capacity < 5000 THEN 1
    ELSE Max2(2, CeilDiv(player_capacity, 5000))

\* The statements run in source order: min() of the empty candidate list
\* raises ValueError before any later field is computed.  memory_gb is the
\* quotient memory_mb / 1024, kept as the pair <<numerator, denominator>>.
calculate_resources(player_capacity) ==
    LET cpu_vcpu == RequiredVCpu(player_capacity)
        cpu_units == cpu_vcpu * 1024
        candidates == CpuCandidates(cpu_units)
    IN  IF candidates = <<>> THEN Raise("ValueError")
        ELSE
          LET rounded_cpu == MinOfSeq(candidates)
              memory_mb == ClampMemory(RequiredMemoryGb(player_capacity) * 1024,
                                       CPU_MEMORY_MIN[rounded_cpu],
                                       CPU_MEMORY_MAX[rounded_cpu])
          IN  Return([cpu_vcpu |-> cpu_vcpu,
                      cpu_units |-> rounded_cpu,
                      memory_gb |-> <<memory_mb, 1024>>,
                      memory_mb |-> memory_mb,
                      desired_count |-> DesiredCount(player_capacity),
                      redis_node_type |-> RedisNodeType(player_capacity),
                      redis_replica_count |-> RedisReplicaCount(player_capacity),
                      efs_performance_mode |-> EfsPerformanceMode(player_capacity),
                      nat_gateway_count |-> NatGatewayCount(player_capacity),
                      enable_global_accelerator |->
                          EnableGlobalAccelerator(player_capacity)])

\* ------------------------------------------------------ calculate_costs
\* The six unrounded line items, in money units.
EcsCost(resources) ==
    (resources.cpu_vcpu * ECS_CPU_PRICE_PER_VCPU_HOUR
       + (resources.memory_gb[1] * ECS_MEMORY_PRICE_PER_GB_HOUR)
             \div resources.memory_gb[2])
    * HOURS_PER_MONTH * resources.desired_count

RedisCost(resources) ==
    LET redis_hourly ==
            IF resources.redis_node_type \in DOMAIN REDIS_HOURLY_PRICING
            THEN REDIS_HOURLY_PRICING[resources.redis_node_type]
            ELSE REDIS_DEFAULT_HOURLY
    IN  redis_hourly * HOURS_PER_MONTH * (resources.redis_replica_count + 1)

EfsCost(resources) == EFS_BASELINE_STORAGE_GB * EFS_STORAGE_PRICE_PER_GB_MONTH

NatCost(resources) == resources.nat_gateway_count * NAT_GATEWAY_PRICE_PER_MONTH

AlbCost(resources) == ALB_BASE_PRICE_PER_MONTH

AcceleratorCost(resources) ==
    IF resources.enable_global_accelerator
    THEN GLOBAL_ACCELERATOR_PRICE_PER_MONTH ELSE 0

\* A total that forgets the accelerator line.
TotalCostWithoutAccelerator(resources) ==
    EcsCost(resources) + RedisCost(resources) + EfsCost(resources)
      + NatCost(resources) + AlbCost(resources)

TotalCost(resources) ==
    EcsCost(resources) + RedisCost(resources) + EfsCost(resources)
      + NatCost(resources) + AlbCost(resources) + AcceleratorCost(resources)

\* The returned dictionary: every entry in cents.
calculate_costs(resources) ==
    [ecs |-> Round2(EcsCost(resources)),
     redis |-> Round2(RedisCost(resources)),
     efs |-> Round2(EfsCost(resources)),
     nat |-> Round2(NatCost(resources)),
     alb |-> Round2(AlbCost(resources)),
     accelerator |-> Round2(AcceleratorCost(resources)),
     total |-> Round2(TotalCost(resources))]

\* ------------------------------------------------------------------ main
VARIABLES argv, pc, player_capacity, json_output, resources, costs,
          stdout, stderr, exit_code, called

vars == <<argv, pc, player_capacity, json_output, resources, costs,
          stdout, stderr, exit_code, called>>

None == [none |-> TRUE]

SCRIPT == <<"c">>
JSON_FLAG == <<"-", "-", "j", "s", "o", "n">>

\* str(n) of a natural number: the decimal literals given on the command line
RECURSIVE IntLiteral(_)
IntLiteral(n) == IF n < 10 THEN <<Digits[n + 1]>>
                 ELSE Append(IntLiteral(n \div 10), Digits[(n % 10) + 1])

OtherArguments ==
    { <<"a", "b", "c">>, <<>>, <<"1", ".", "5">>, <<"1", "0", "0", "a">>,
      <<"-">>, <<"5", " ", "0">>, JSON_FLAG,
      <<"-", "5", "0", "0">>, <<"+", "5", "0", "0">>,
      <<" ", "1", "0", "0", "0", " ">>, <<"0", "0", "5", "0", "0">> }

Arguments == { IntLiteral(n) : n \in 0..MaxArg } \cup OtherArguments

CommandLines ==
    { <<SCRIPT>>, <<SCRIPT, JSON_FLAG, JSON_FLAG>> }
      \cup { <<SCRIPT, a>> : a \in Arguments }
      \cup { <<SCRIPT, a, JSON_FLAG>> : a \in Arguments }

\* A range test with both comparisons off by one.
OutOfRangeOffByOne(capacity) ==
    capacity <= MIN_PLAYER_CAPACITY \/ capacity >= MAX_PLAYER_CAPACITY

OutOfRange(capacity) ==
    capacity < MIN_PLAYER_CAPACITY \/ capacity > MAX_PLAYER_CAPACITY

Init ==
    /\ argv \in CommandLines
    /\ pc = "argc"
    /\ player_capacity = None
    /\ json_output = FALSE
    /\ resources = None
    /\ costs = None
    /\ stdout = <<>>
    /\ stderr = <<>>
    /\ exit_code = 0
    /\ called = <<>>

\* sys.exit(1) after print(message)
ExitWith(message) ==
    /\ stdout' = Append(stdout, message)
    /\ exit_code' = 1
    /\ pc' = "exited"

\* if len(sys.argv) < 2
CheckArgc ==
    /\ pc = "argc"
    /\ IF Len(argv) < 2
       THEN ExitWith("usage")
       ELSE /\ pc' = "parse"
            /\ UNCHANGED <<stdout, exit_code>>
    /\ UNCHANGED <<argv, player_capacity, json_output, resources, costs,
                   stderr, called>>

\* try: player_capacity = int(sys.argv[1]) except ValueError: ...
ParseCapacity ==
    /\ pc = "parse"
    /\ LET parsed == ParseInt(argv[2])
       IN  IF parsed.raised
           THEN /\ ExitWith("invalid_integer")
                /\ UNCHANGED player_capacity
           ELSE /\ player_capacity' = parsed.value
                /\ pc' = "range"
                /\ UNCHANGED <<stdout, exit_code>>
    /\ UNCHANGED <<argv, json_output, resources, costs, stderr, called>>

\* the range test, then json_output = "--json" in sys.argv
CheckRange ==
    /\ pc = "range"
    /\ IF OutOfRange(player_capacity)
       THEN /\ ExitWith("out_of_range")
            /\ UNCHANGED json_output
       ELSE /\ json_output' = (\E i \in 1..Len(argv) : argv[i] = JSON_FLAG)
            /\ pc' = "resources"
            /\ UNCHANGED <<stdout, exit_code>>
    /\ UNCHANGED <<argv, player_capacity, resources, costs, stderr, called>>

\* resources = calculate_resources(player_capacity); an exception that
\* nothing catches ends the interpreter with a traceback and status 1.
CalculateResources ==
    /\ pc = "resources"
    /\ called' = Append(called, "calculate_resources")
    /\ LET result == calculate_resources(player_capacity)
       IN  IF result.raised
           THEN /\ stderr' = Append(stderr, result.error)
                /\ exit_code' = 1
                /\ pc' = "exited"
                /\ UNCHANGED resources
           ELSE /\ resources' = result.value
                /\ pc' = "costs"
                /\ UNCHANGED <<stderr, exit_code>>
    /\ UNCHANGED <<argv, player_capacity, json_output, costs, stdout>>

\* costs = calculate_costs(resources)
CalculateCosts ==
    /\ pc = "costs"
    /\ called' = Append(called, "calculate_costs")
    /\ costs' = calculate_costs(resources)
    /\ pc' = "print"
    /\ UNCHANGED <<argv, player_capacity, json_output, resources, stdout,
                   stderr, exit_code>>

\* the JSON document or the report; main returns and the status is 0
PrintOutput ==
    /\ pc = "print"
    /\ stdout' = Append(stdout, IF json_output THEN "json" ELSE "report")
    /\ pc' = "exited"
    /\ UNCHANGED <<argv, player_capacity, json_output, resources, costs,
                   stderr, exit_code, called>>

Next ==
    \/ CheckArgc
    \/ ParseCapacity
    \/ CheckRange
    \/ CalculateResources
    \/ CalculateCosts
    \/ PrintOutput

Spec == Init /\ [][Next]_vars

\* ---------------------------------------------------------- vocabulary
\* calculate_resources has been called (player_capacity is then an integer
\* of the accepted range) and, if so, whether it returned or raised.
SizerCalled == called # <<>>
SizerReturned == resources # None
CostsReturned == costs # None

\* The command line is one that the validation of main has to reject.
InvalidInput ==
    \/ Len(argv) < 2
    \/ ParseInt(argv[2]).raised
    \/ ParseInt(argv[2]).value < 100
    \/ ParseInt(argv[2]).value > 50000

ErrorMessages == {"usage", "invalid_integer", "out_of_range"}
Printed(kinds) == \E i \in 1..Len(stdout) : stdout[i] \in kinds

CpuOptionSet == {256, 512, 1024, 2048, 4096, 8192, 16384}

\* --------------------------------------------------------------- claims

\* C1: for every integer capacity in [100, 50000] the sizing step followed
\* by the costing step completes without raising, yields a full resource
\* configuration and cost breakdown, and the run prints and exits with 0.
C1_TotalOverDomain ==
    (~InvalidInput)
      => /\ SizerCalled => SizerReturned
         /\ stderr = <<>>
         /\ pc = "exited" => /\ exit_code = 0
                             /\ CostsReturned
                             /\ Printed({"json", "report"})

\* C2: for all capacity in [100, 50000] the sizer returns a cpuUnits that is
\* a member of the CPU option set and the smallest member that is at least
\* cpuVCpu * 1024, with cpuVCpu = max(1, ceil(capacity / 100)).
C2_SmallestCpuOption ==
    SizerCalled
      => /\ SizerReturned
         /\ LET raw == Max2(1, CeilDiv(player_capacity, 100)) * 1024
            IN  /\ resources.cpu_units \in CpuOptionSet
                /\ resources.cpu_units >= raw
                /\ \A o \in CpuOptionSet : o >= raw => resources.cpu_units <= o

\* C3: for all capacity the sizer returns a memoryMB inside the closed
\* interval [CPU_MEMORY_MIN, CPU_MEMORY_MAX] of the cpuUnits it returns for
\* the same capacity.
C3_MemoryWithinTier ==
    SizerCalled
      => /\ SizerReturned
         /\ resources.memory_mb >= CPU_MEMORY_MIN[resources.cpu_units]
         /\ resources.memory_mb <= CPU_MEMORY_MAX[resources.cpu_units]

\* C4: for capacities c1 <= c2 in [100, 50000] the sizer computes, for c2,
\* cpuUnits, memoryMB, desiredCount, natGatewayCount and redisReplicaCount
\* that are each at least the value it computes for c1.
C4_Monotone ==
    SizerCalled
      => /\ SizerReturned
         /\ \A c1 \in 100..player_capacity :
              LET r1 == calculate_resources(c1)
              IN  /\ ~r1.raised
                  /\ r1.value.cpu_units <= resources.cpu_units
                  /\ r1.value.memory_mb <= resources.memory_mb
                  /\ r1.value.desired_count <= resources.desired_count
                  /\ r1.value.nat_gateway_count <= resources.nat_gateway_count
                  /\ r1.value.redis_replica_count
                       <= resources.redis_replica_count

\* C5: the sizer returns the cache tier of the band of the capacity, the
\* bands being <= 500, 501..2000, 2001..5000, 5001..10000, 10001..20000 and
\* above 20000 (so at 500, 501, 2000, 2001, 5000, 5001, 10000, 10001, 20000
\* and 20001 it returns the tier of that band).
C5_CacheTierBands ==
    SizerCalled
      => /\ SizerReturned
         /\ resources.redis_node_type =
              CASE player_capacity \in 100..500     -> "cache.t3.micro"
                [] player_capacity \in 501..2000    -> "cache.t3.small"
                [] player_capacity \in 2001..5000   -> "cache.t3.medium"
                [] player_capacity \in 5001..10000  -> "cache.t3.large"
                [] player_capacity \in 10001..20000 -> "cache.r6g.large"
                [] player_capacity \in 20001..50000 -> "cache.r6g.xlarge"

\* C6: every invalid input (no argument, a non-integer argument, an integer
\* outside [100, 50000]) is detected before calculate_resources or
\* calculate_costs runs, ends the process with exit code 1 and prints no
\* JSON document or report; 100 and 50000 themselves are accepted.
C6_InvalidInputRejected ==
    /\ InvalidInput
         => /\ called = <<>>
            /\ ~Printed({"json", "report"})
            /\ pc \in {"argc", "parse", "range", "exited"}
            /\ pc = "exited" => exit_code = 1 /\ Printed(ErrorMessages)
            /\ pc # "exited" => ENABLED Next
    /\ (Len(argv) >= 2 /\ argv[2] \in {IntLiteral(100), IntLiteral(50000)})
         => /\ ~Printed(ErrorMessages)
            /\ pc \notin {"argc", "parse", "range"} => SizerCalled \/ pc = "resources"

C6_Witness ==
    /\ Len(argv) >= 2
    /\ argv[2] = IntLiteral(50001)
    /\ pc = "exited"
    /\ exit_code = 1
    /\ stdout = <<"out_of_range">>

\* C7: for every resource configuration the sizer produces, the total of
\* calculate_costs is the sum of the six unrounded line items rounded to 2
\* decimals, and each of the six line items is non-negative.
C7_TotalOfUnrounded ==
    CostsReturned
      => /\ costs.total =
              Round2(EcsCost(resources) + RedisCost(resources)
                     + EfsCost(resources) + NatCost(resources)
                     + AlbCost(resources) + AcceleratorCost(resources))
         /\ \A k \in {"ecs", "redis", "efs", "nat", "alb", "accelerator"} :
              costs[k] >= 0
         /\ EcsCost(resources) >= 0 /\ RedisCost(resources) >= 0
         /\ EfsCost(resources) >= 0 /\ NatCost(resources) >= 0
         /\ AlbCost(resources) >= 0 /\ AcceleratorCost(resources) >= 0

C7_Witness ==
    /\ CostsReturned
    /\ resources.enable_global_accelerator
    /\ costs.accelerator > 0
    /\ costs.total > costs.ecs + costs.redis

\* C8: for every capacity in [5000, 50000] the sizer returns desiredCount =
\* max(2, ceil(capacity / 5000)) and redisReplicaCount = max(0,
\* ceil(capacity / 5000) - 1), below 5000 it returns desiredCount = 1, and
\* at 50000 it returns 10 tasks, cache.r6g.xlarge, 9 replicas, 2 NAT
\* gateways and maxIO.
C8_ScaleOut ==
    SizerCalled
      => /\ SizerReturned
         /\ player_capacity >= 5000
              => /\ resources.desired_count
                      = Max2(2, CeilDiv(player_capacity, 5000))
                 /\ resources.redis_replica_count
                      = Max2(0, CeilDiv(player_capacity, 5000) - 1)
         /\ player_capacity < 5000 => resources.desired_count = 1
         /\ player_capacity = 50000
              => /\ resources.desired_count = 10
                 /\ resources.redis_node_type = "cache.r6g.xlarge"
                 /\ resources.redis_replica_count = 9
                 /\ resources.nat_gateway_count = 2
                 /\ resources.efs_performance_mode = "maxIO"

\* C9: at capacity 500 the sizer returns cpuVCpu 5, cpuUnits 8192,
\* cache.t3.micro, 0 replicas, 1 task, 1 NAT gateway and no accelerator;
\* the accelerator is enabled exactly from capacity 1000 on, and there are
\* 2 NAT gateways exactly from capacity 10000 on and 1 below.
C9_Capacity500AndThresholds ==
    SizerCalled
      => /\ SizerReturned
         /\ player_capacity = 500
              => /\ resources.cpu_vcpu = 5
                 /\ resources.cpu_units = 8192
                 /\ resources.redis_node_type = "cache.t3.micro"
                 /\ resources.redis_replica_count = 0
                 /\ resources.desired_count = 1
                 /\ resources.nat_gateway_count = 1
                 /\ resources.enable_global_accelerator = FALSE
         /\ resources.enable_global_accelerator = (player_capacity >= 1000)
         /\ resources.nat_gateway_count
              = (IF player_capacity >= 10000 THEN 2 ELSE 1)

\* C10: whenever the sizer returns a configuration, memoryMB is exactly the
\* minimum memory of the chosen tier, which is 2 * cpuUnits; the required
\* memory max(2, ceil(capacity / 50)) * 1024 never exceeds that minimum (so
\* the upper clamp lowers nothing), and the tiers 256 and 512 are never
\* chosen.
C10_MemoryIsTierMinimum ==
    SizerReturned
      => /\ resources.memory_mb = CPU_MEMORY_MIN[resources.cpu_units]
         /\ resources.memory_mb = 2 * resources.cpu_units
         /\ Max2(2, CeilDiv(player_capacity, 50)) * 1024
              <= CPU_MEMORY_MIN[resources.cpu_units]
         /\ Max2(2, CeilDiv(player_capacity, 50)) * 1024
              <= CPU_MEMORY_MAX[resources.cpu_units]
         /\ resources.cpu_units \notin {256, 512}

C10_Witness ==
    /\ SizerReturned
    /\ Max2(2, CeilDiv(player_capacity, 50)) * 1024 < resources.memory_mb
    /\ resources.memory_mb = CPU_MEMORY_MIN[resources.cpu_units]

====
